---- MODULE Spec2Model ----
(***************************************************************************)
(* Natural-language-to-SQL assistant (LangChain + Cohere).                 *)
(*                                                                         *)
(* Two program variants are modelled:                                      *)
(*   "script"      src/l1.py      module-level construction, bare __main__ *)
(*   "refactored"  src/src/l1.py  main() with create_database() etc.       *)
(*                                                                         *)
(* Strings are sequences of tokens: f"Error: {e}" is <<"Error: ", e>>,     *)
(* ', '.join(xs) interleaves the token ", ", '\n'.join(xs) the token "\n". *)
(***************************************************************************)
EXTENDS Integers, Sequences, FiniteSets, TLC

VARIABLES
    \* ---- tool harness (execute_sql called by a dispatcher) ----
    defDb,      \* the module-level name `db` visible where the tool is defined
    runCtx,     \* the RuntimeContext bound to the current run, or NoCtx
    toolLog,    \* one record per execute_sql invocation
    \* ---- schema harness (get_compact_schema) ----
    catalog,    \* the database metadata: sequence of [name, cols, ok]
    schemaOut,  \* what get_compact_schema produced, or NotRun
    \* ---- the program (construction, prompt, streaming loop, exit) ----
    variant,      \* which program file runs
    pc,           \* position of the main thread
    env,          \* what the outside world does: files, credentials, stdin
    db,           \* the handle construction produced, or NoDb
    exitCode,     \* process exit status once pc = "exited" (-1 while running)
    uncaught,     \* an exception left the top level (traceback)
    reports,      \* contexts handle_error printed, in order
    prompted,     \* input() was called
    question,     \* the question submitted to the agent
    cause,        \* why the process ended
    conv,         \* ConversationState: the messages so far
    pendingCalls, \* tool calls of the latest model message not yet executed
    loopState,    \* state of the agent loop
    modelCalls, toolExecs, emitted, toolErrs,  \* counters of the loop
    consumed, rendered                         \* counters of the consumer

toolVars == <<defDb, runCtx, toolLog>>
schemaVars == <<catalog, schemaOut>>
progVars == <<variant, pc, env, db, exitCode, uncaught, reports, prompted,
              question, cause, conv, pendingCalls, loopState, modelCalls,
              toolExecs, emitted, toolErrs, consumed, rendered>>
vars == <<toolVars, schemaVars, progVars>>

\* ------------------------------------------------------------------ bounds
MaxInvocations == 2   \* execute_sql invocations in the tool harness
MaxTables == 2        \* tables of a catalog in the schema harness
MaxCols == 2          \* columns of a table in the schema harness
MaxToolCalls == 3     \* tool calls the model emits in one run of the program

\* ------------------------------------------------------------ string helpers
RECURSIVE Join(_, _)
\* sep.join(parts): parts is a sequence of strings (token sequences)
Join(parts, sep) ==
    IF Len(parts) = 0 THEN <<>>
    ELSE IF Len(parts) = 1 THEN parts[1]
    ELSE parts[1] \o <<sep>> \o Join(Tail(parts), sep)

RECURSIVE Split(_, _)
\* s.split(sep) for a token sequence s (the inverse used to read lines back)
Split(s, sep) ==
    IF \A i \in 1..Len(s) : s[i] # sep THEN <<s>>
    ELSE LET k == CHOOSE i \in 1..Len(s) :
                        s[i] = sep /\ \A j \in 1..(i - 1) : s[j] # sep
         IN <<SubSeq(s, 1, k - 1)>> \o Split(SubSeq(s, k + 1, Len(s)), sep)

Last(s) == s[Len(s)]

\* ------------------------------------------------------------ the database
Handles == {"dbA", "dbB"}
NoDb == "no_db"
NoCtx == [bound |-> FALSE, db |-> NoDb]
Ctx(h) == [bound |-> TRUE, db |-> h]

Queries == {"", "SELECT Name FROM Artist", "not sql at all",
            "SELECT x FROM Missing", "INSERT dup key"}
WellFormed == {"SELECT Name FROM Artist"}

\* What db.run(query) can do on handle h: return the textual rows, or raise an
\* Exception subclass (syntax error, missing table, constraint violation, lost
\* connection).  "interrupt" is a KeyboardInterrupt delivered while db.run is
\* executing: a BaseException, not an Exception.
RunOutcomes(h, q) ==
    (IF q \in WellFormed \/ q = ""
        THEN {[kind |-> "rows", text |-> <<"rows", h, q>>]} ELSE {})
    \cup (IF q \notin WellFormed
        THEN {[kind |-> "exception", text |-> <<"OperationalError", q>>]} ELSE {})
    \cup {[kind |-> "exception", text |-> <<"connection lost", h>>],
          [kind |-> "interrupt", text |-> <<"KeyboardInterrupt">>]}

\* ---------------------------------------------------------------- execute_sql
\* (a tool that reads the module-level `db` captured where it was defined)
ToolDbDefinitionTime(ctx, global) == global
\* The handle execute_sql runs the query on: `db = runtime.context.db`.
ToolDb(ctx, global) == ctx.db

\* (a tool body without the try/except: return db.run(query))
CatchNothing(out) ==
    IF out.kind = "rows"
        THEN [raised |-> FALSE, value |-> out.text]
        ELSE [raised |-> TRUE, value |-> out.text]
\* try: return db.run(query) / except Exception as e: return f"Error: {e}"
TryRun(out) ==
    IF out.kind = "rows" THEN [raised |-> FALSE, value |-> out.text]
    ELSE IF out.kind = "exception"
        THEN [raised |-> FALSE, value |-> <<"Error: ">> \o out.text]
    ELSE [raised |-> TRUE, value |-> out.text]

\* The whole tool body for one invocation whose db.run does `out`.
\* With no context bound, runtime.context.db fails before the try block.
ExecuteSql(ctx, global, q, out) ==
    IF ~ctx.bound
        THEN [raised |-> TRUE, value |-> <<"AttributeError">>,
              queried |-> NoDb, query |-> q, ctx |-> ctx, out |-> "none",
              msg |-> <<>>]
        ELSE [raised |-> TryRun(out).raised, value |-> TryRun(out).value,
              queried |-> ToolDb(ctx, global), query |-> q, ctx |-> ctx,
              out |-> out.kind, msg |-> out.text]

\* --------------------------------------------------------- get_compact_schema
TableNames == {"Album", "Artist", "Track"}
ColumnNames == {"ArtistId", "Name", "TrackId"}

\* sequences without repetition, of length at most n, over S
DistinctSeqs(S, n) ==
    {s \in UNION {[1..k -> S] : k \in 0..n} :
        \A i, j \in 1..Len(s) : s[i] = s[j] => i = j}

\* what inspector.get_columns(table) returns for one column
Column(c) == [name |-> c, type |-> "INTEGER"]

\* a catalog: the usable tables in listing order, the columns of each in
\* catalog order, and whether column introspection works for the table
Catalogs ==
    LET Entries == {[name |-> n, cols |-> [i \in 1..Len(cs) |-> Column(cs[i])],
                     ok |-> o] : n \in TableNames,
                                 cs \in DistinctSeqs(ColumnNames, MaxCols),
                                 o \in BOOLEAN}
    IN {cat \in UNION {[1..k -> Entries] : k \in 0..MaxTables} :
            \A i, j \in 1..Len(cat) : cat[i].name = cat[j].name => i = j}

\* db.get_usable_table_names()
UsableTableNames(cat) == [i \in 1..Len(cat) |-> cat[i].name]
TableEntry(cat, t) == CHOOSE e \in {cat[i] : i \in 1..Len(cat)} : e.name = t

\* [col['name'] for col in columns], each name a one-token string
ColNames(cols) == [i \in 1..Len(cols) |-> <<cols[i].name>>]

\* (a line that lists the columns last to first)
SchemaLineReversed(table, cols) ==
    <<"- ", table, ": ">>
        \o Join([i \in 1..Len(cols) |-> ColNames(cols)[Len(cols) + 1 - i]], ", ")
\* f"- {table}: {', '.join(col_names)}"
SchemaLine(table, cols) == <<"- ", table, ": ">> \o Join(ColNames(cols), ", ")

CallTables == [op |-> "get_usable_table_names", arg |-> ""]
CallColumns(t) == [op |-> "get_columns", arg |-> t]

\* src/l1.py: the for loop that appends one line per table, then joins
RECURSIVE SchemaLoop(_, _, _, _, _)
SchemaLoop(cat, names, i, lines, calls) ==
    IF i > Len(names)
        THEN [ran |-> TRUE, raised |-> FALSE, text |-> Join(lines, "\n"),
              calls |-> calls]
        ELSE LET e == TableEntry(cat, names[i])
                 calls2 == Append(calls, CallColumns(names[i]))
             IN IF ~e.ok
                    THEN [ran |-> TRUE, raised |-> TRUE, text |-> <<>>,
                          calls |-> calls2]
                    ELSE SchemaLoop(cat, names, i + 1,
                                    Append(lines, SchemaLine(names[i], e.cols)),
                                    calls2)
GetCompactSchemaScript(cat) ==
    SchemaLoop(cat, UsableTableNames(cat), 1, <<>>, <<CallTables>>)

\* (a get_compact_schema that wraps the introspection of each table in a
\* try/except and skips the table when it fails)
RECURSIVE SkippingLoop(_, _, _, _, _)
SkippingLoop(cat, names, i, lines, calls) ==
    IF i > Len(names)
        THEN [ran |-> TRUE, raised |-> FALSE, text |-> Join(lines, "\n"),
              calls |-> calls]
        ELSE LET e == TableEntry(cat, names[i])
             IN SkippingLoop(cat, names, i + 1,
                    IF e.ok THEN Append(lines, SchemaLine(names[i], e.cols))
                            ELSE lines,
                    Append(calls, CallColumns(names[i])))
GetCompactSchemaSkipping(cat) ==
    SkippingLoop(cat, UsableTableNames(cat), 1, <<>>, <<CallTables>>)

\* src/src/l1.py: '\n'.join(<generator over the usable tables>); the generator
\* is consumed in order and the first get_columns that raises ends the join
GetCompactSchema(cat) ==
    LET names == UsableTableNames(cat)
        Bad == {i \in 1..Len(names) : ~TableEntry(cat, names[i]).ok}
        stop == IF Bad = {} THEN Len(names)
                ELSE CHOOSE i \in Bad : \A j \in Bad : i <= j
        calls == <<CallTables>> \o [i \in 1..stop |-> CallColumns(names[i])]
    IN IF Bad # {}
        THEN [ran |-> TRUE, raised |-> TRUE, text |-> <<>>, calls |-> calls]
        ELSE [ran |-> TRUE, raised |-> FALSE,
              text |-> Join([i \in 1..Len(names) |->
                        SchemaLine(names[i], TableEntry(cat, names[i]).cols)], "\n"),
              calls |-> calls]

\* ----------------------------------------------------------- idle components
ToolIdle == defDb = NoDb /\ runCtx = NoCtx /\ toolLog = <<>>
NotRun == [ran |-> FALSE, raised |-> FALSE, text |-> <<>>, calls |-> <<>>]
SchemaIdle == catalog = <<>> /\ schemaOut = NotRun
ProgIdle ==
    /\ variant = "none" /\ pc = "idle" /\ env = [dbFile |-> TRUE, modelOk |-> TRUE]
    /\ db = NoDb /\ exitCode = -1 /\ uncaught = FALSE /\ reports = <<>>
    /\ prompted = FALSE /\ question = <<>> /\ cause = "none"
    /\ conv = <<>> /\ pendingCalls = <<>> /\ loopState = "NotStarted"
    /\ modelCalls = 0 /\ toolExecs = 0 /\ emitted = 0 /\ toolErrs = 0
    /\ consumed = 0 /\ rendered = 0

\* ================================================================ tool harness
\* execute_sql driven directly by a dispatcher: the tool is defined once (with
\* whatever module-level `db` exists at that time) and then invoked in runs
\* that each bind their own RuntimeContext.
ToolInit ==
    /\ defDb \in Handles \cup {NoDb}
    /\ runCtx = NoCtx
    /\ toolLog = <<>>
    /\ SchemaIdle /\ ProgIdle

\* agent.stream(..., context={"db": db}) binds the run's context
BindRun ==
    /\ ~runCtx.bound
    /\ \E h \in Handles : runCtx' = Ctx(h)
    /\ UNCHANGED <<defDb, toolLog, schemaVars, progVars>>

\* the run is over: its context is gone
EndRun ==
    /\ runCtx.bound
    /\ runCtx' = NoCtx
    /\ UNCHANGED <<defDb, toolLog, schemaVars, progVars>>

\* one call of execute_sql(query)
InvokeTool ==
    /\ Len(toolLog) < MaxInvocations
    /\ \E q \in Queries :
        \E out \in RunOutcomes(ToolDb(runCtx, defDb), q) :
            toolLog' = Append(toolLog, ExecuteSql(runCtx, defDb, q, out))
    /\ UNCHANGED <<defDb, runCtx, schemaVars, progVars>>

ToolNext == BindRun \/ EndRun \/ InvokeTool
SpecTool == ToolInit /\ [][ToolNext]_vars

\* C1: with a RuntimeContext bound, every invocation whose db.run raised an
\* execution error (an Exception) returned normally, and what it returned is
\* the text "Error: " followed by the error's message.
C1_ToolNeverRaisesOnExecutionError ==
    \A i \in 1..Len(toolLog) :
        (toolLog[i].ctx.bound /\ toolLog[i].out = "exception") =>
            /\ ~toolLog[i].raised
            /\ Len(toolLog[i].value) >= 1
            /\ Head(toolLog[i].value) = "Error: "
            /\ Tail(toolLog[i].value) = toolLog[i].msg

\* a bound invocation of a query on a missing table failed and came back in-band
C1_Witness ==
    \E i \in 1..Len(toolLog) :
        /\ toolLog[i].ctx.bound
        /\ toolLog[i].query = "SELECT x FROM Missing"
        /\ toolLog[i].out = "exception"
        /\ toolLog[i].value = <<"Error: ", "OperationalError", "SELECT x FROM Missing">>

\* C6: every invocation made under a bound context queried that context's
\* database handle, whatever `db` was visible when the tool was defined.
C6_ToolUsesRunContextDb ==
    \A i \in 1..Len(toolLog) :
        toolLog[i].ctx.bound =>
            /\ toolLog[i].queried = toolLog[i].ctx.db
            /\ (toolLog[i].out = "rows" =>
                    toolLog[i].value = <<"rows", toolLog[i].ctx.db, toolLog[i].query>>)

\* the same tool definition served two runs with different contexts, one of
\* them different from the definition-time handle, each on its own handle
C6_Witness ==
    /\ Len(toolLog) = 2
    /\ defDb = "dbA"
    /\ toolLog[1].ctx = Ctx("dbA") /\ toolLog[1].queried = "dbA"
    /\ toolLog[2].ctx = Ctx("dbB") /\ toolLog[2].queried = "dbB"
    /\ toolLog[2].out = "rows"

\* ============================================================== schema harness
SchemaInit ==
    /\ catalog \in Catalogs
    /\ schemaOut = NotRun
    /\ ToolIdle /\ ProgIdle

\* get_compact_schema(db) of src/l1.py
RunSchemaScript ==
    /\ ~schemaOut.ran
    /\ schemaOut' = GetCompactSchemaScript(catalog)
    /\ UNCHANGED <<catalog, toolVars, progVars>>

\* get_compact_schema(db) of src/src/l1.py
RunSchemaRefactored ==
    /\ ~schemaOut.ran
    /\ schemaOut' = GetCompactSchema(catalog)
    /\ UNCHANGED <<catalog, toolVars, progVars>>

SchemaNext == RunSchemaScript \/ RunSchemaRefactored
SpecSchema == SchemaInit /\ [][SchemaNext]_vars

\* the lines of a rendered schema ('' has no line)
LinesOf(text) == IF text = <<>> THEN <<>> ELSE Split(text, "\n")

\* line is "- <table>: <c1>, <c2>, ..." for the table entry e
IsLineOf(line, e) ==
    LET n == Len(e.cols) IN
    /\ Len(line) = 3 + (IF n = 0 THEN 0 ELSE 2 * n - 1)
    /\ line[1] = "- " /\ line[2] = e.name /\ line[3] = ": "
    /\ \A k \in 1..n : line[2 + 2 * k] = e.cols[k].name
    /\ \A k \in 1..(n - 1) : line[3 + 2 * k] = ", "

\* C7: when introspection works for every table, the summary has exactly one
\* line per usable table, in listing order, "- <table>: <col>, <col>, ..." with
\* the columns in catalog order, and the only calls made on the database are
\* one get_usable_table_names and one get_columns per table.
C7_OneLinePerTable ==
    (schemaOut.ran /\ \A i \in 1..Len(catalog) : catalog[i].ok) =>
        /\ ~schemaOut.raised
        /\ Len(LinesOf(schemaOut.text)) = Len(catalog)
        /\ \A i \in 1..Len(catalog) : IsLineOf(LinesOf(schemaOut.text)[i], catalog[i])
        /\ Len(schemaOut.calls) = 1 + Len(catalog)
        /\ schemaOut.calls[1] = CallTables
        /\ \A i \in 1..Len(catalog) :
                schemaOut.calls[i + 1] = CallColumns(catalog[i].name)

\* two tables of two columns each were summarised
C7_Witness ==
    /\ schemaOut.ran /\ ~schemaOut.raised
    /\ Len(catalog) = 2
    /\ \A i \in 1..2 : catalog[i].ok /\ Len(catalog[i].cols) = 2
    /\ Len(LinesOf(schemaOut.text)) = 2

\* C8 as claimed: a table whose introspection fails is omitted and the lines
\* of all other tables are still returned.
C8_FailedTableOmitted ==
    schemaOut.ran =>
        /\ ~schemaOut.raised
        /\ LET Good == {i \in 1..Len(catalog) : catalog[i].ok}
           IN /\ Len(LinesOf(schemaOut.text)) = Cardinality(Good)
              /\ \A i \in Good :
                    \E k \in 1..Len(LinesOf(schemaOut.text)) :
                        IsLineOf(LinesOf(schemaOut.text)[k], catalog[i])

\* C8 amended: get_compact_schema raises exactly when introspection fails for
\* some table; it then returns no summary at all (no line of any table), and
\* it stops at the first failing table.
C8_FailureAbortsSummary ==
    schemaOut.ran =>
        LET Bad == {i \in 1..Len(catalog) : ~catalog[i].ok} IN
        /\ schemaOut.raised <=> Bad # {}
        /\ schemaOut.raised =>
            /\ schemaOut.text = <<>>
            /\ \A i \in Bad : Len(schemaOut.calls) <= 1 + i
            /\ Last(schemaOut.calls).op = "get_columns"
            /\ ~TableEntry(catalog, Last(schemaOut.calls).arg).ok

\* introspection worked for the first table and failed for the second
C8_Witness ==
    /\ schemaOut.ran /\ schemaOut.raised
    /\ Len(catalog) = 2 /\ catalog[1].ok /\ ~catalog[2].ok
    /\ Len(schemaOut.calls) = 3

\* ================================================================= the program
DEFAULT_QUESTION == "List top 10 artists with highest tracks"
ProgDb == "dbA"
ProgQueries == {"SELECT Name FROM Artist", "SELECT x FROM Missing"}
Shapes == {"ok", "malformed"}

\* the Chinook catalog, and the same catalog with introspection of Track failing
Chinook(trackOk) ==
    <<[name |-> "Artist", cols |-> <<Column("ArtistId"), Column("Name")>>,
       ok |-> TRUE],
      [name |-> "Track", cols |-> <<Column("TrackId"), Column("ArtistId")>>,
       ok |-> trackOk]>>
ProgCatalogs == {Chinook(TRUE), Chinook(FALSE)}

\* what the user does at the input() prompt: a line of text, end of input, or
\* an interrupt
StdinLines == {<<"How many tracks?">>, <<" ", "How many tracks?", " ">>, <<>>, <<" ">>}
StdinEvents == {[kind |-> "line", text |-> l] : l \in StdinLines}
               \cup {[kind |-> "eof", text |-> <<>>],
                     [kind |-> "interrupt", text |-> <<>>]}

RECURSIVE Strip(_)
\* str.strip(): drops leading and trailing whitespace tokens
Strip(l) ==
    IF l = <<>> THEN l
    ELSE IF Head(l) = " " THEN Strip(Tail(l))
    ELSE IF Last(l) = " " THEN Strip(SubSeq(l, 1, Len(l) - 1))
    ELSE l

\* input(...).strip() or default_question
QuestionOf(l) == IF Strip(l) = <<>> THEN <<DEFAULT_QUESTION>> ELSE Strip(l)

ProgInit ==
    /\ variant \in {"script", "refactored"}
    /\ pc = "construct"
    /\ env \in [dbFile : BOOLEAN, modelOk : BOOLEAN]
    /\ catalog \in ProgCatalogs
    /\ schemaOut = NotRun
    /\ ToolIdle
    /\ db = NoDb /\ exitCode = -1 /\ uncaught = FALSE /\ reports = <<>>
    /\ prompted = FALSE /\ question = <<>> /\ cause = "none"
    /\ conv = <<>> /\ pendingCalls = <<>> /\ loopState = "NotStarted"
    /\ modelCalls = 0 /\ toolExecs = 0 /\ emitted = 0 /\ toolErrs = 0
    /\ consumed = 0 /\ rendered = 0

\* the process ends: exit status, whether a traceback was printed, what
\* handle_error printed, and why
Terminate(code, unc, rep, why) ==
    /\ pc' = "exited"
    /\ exitCode' = code
    /\ uncaught' = unc
    /\ reports' = rep
    /\ cause' = why

\* handle_error(e, context): prints "Error <context>: <e>"
HandleError(context) == Append(reports, context)

\* src/l1.py: construction runs at module level, outside any try; the
\* __main__ block catches Exception only
ScriptTopLevel(exc, inTry, why) ==
    IF inTry /\ exc = "Exception"
        THEN Terminate(0, FALSE, HandleError("in main execution"), why)
        ELSE Terminate(IF exc = "KeyboardInterrupt" THEN 130 ELSE 1, TRUE,
                       reports, why)

\* src/src/l1.py: main() runs under try / except KeyboardInterrupt: exit(0) /
\* except Exception: handle_error(e, "in main execution")
RefactoredTopLevel(exc, inTry, why) ==
    IF exc = "KeyboardInterrupt"
        THEN Terminate(0, FALSE, reports, why)
        ELSE Terminate(0, FALSE, HandleError("in main execution"), why)

\* an exception leaves the code at the current position
Raise(exc, inTry, why) ==
    IF variant = "script" THEN ScriptTopLevel(exc, inTry, why)
                          ELSE RefactoredTopLevel(exc, inTry, why)

loopVars == <<conv, pendingCalls, loopState, modelCalls, toolExecs, emitted,
              toolErrs, consumed, rendered>>

\* create_database() / db = SQLDatabase.from_uri(...)
\* refactored: a missing file raises FileNotFoundError.  script: the driver
\* decides what a missing file does: from_uri raises, or an empty database is
\* opened.
CreateDatabase ==
    /\ pc = "construct"
    /\ \/ /\ env.dbFile
          /\ db' = ProgDb
          /\ defDb' = IF variant = "script" THEN ProgDb ELSE NoDb
          /\ pc' = "create_agent"
          /\ UNCHANGED <<catalog, exitCode, uncaught, reports, cause>>
       \/ /\ ~env.dbFile /\ variant = "script"
          /\ db' = ProgDb /\ defDb' = ProgDb
          /\ catalog' = <<>>
          /\ pc' = "create_agent"
          /\ UNCHANGED <<exitCode, uncaught, reports, cause>>
       \/ /\ ~env.dbFile
          /\ Raise("Exception", FALSE, "construction")
          /\ UNCHANGED <<db, defDb, catalog>>
    /\ UNCHANGED <<variant, env, prompted, question, runCtx, toolLog, schemaOut,
                   loopVars>>

\* create_sql_agent(db) / SYSTEM_PROMPT and agent = create_agent(...):
\* get_compact_schema(db) first, then ChatCohere()
CreateAgent ==
    /\ pc = "create_agent"
    /\ schemaOut' = IF variant = "script" THEN GetCompactSchemaScript(catalog)
                                          ELSE GetCompactSchema(catalog)
    /\ IF schemaOut'.raised \/ ~env.modelOk
        THEN Raise("Exception", FALSE, "construction")
        ELSE /\ pc' = "prompt"
             /\ UNCHANGED <<exitCode, uncaught, reports, cause>>
    /\ UNCHANGED <<variant, env, db, prompted, question, catalog, toolVars,
                   loopVars>>

\* the messages of the conversation
Human(q) == [role |-> "human", calls |-> <<>>, text |-> q, shape |-> "ok"]
Ai(calls, shape) ==
    [role |-> "ai", calls |-> calls,
     text |-> IF calls = <<>> THEN <<"answer">> ELSE <<>>, shape |-> shape]
ToolMsg(text, shape) == [role |-> "tool", calls |-> <<>>, text |-> text, shape |-> shape]

\* get_user_question() of src/src/l1.py: KeyboardInterrupt and EOFError are
\* caught at the prompt, which prints "Exiting..." and calls exit(0)
PromptRefactored(ev) ==
    IF ev.kind = "line"
        THEN /\ question' = QuestionOf(ev.text)
             /\ pc' = "stream_next"
             /\ UNCHANGED <<exitCode, uncaught, reports, cause>>
        ELSE /\ question' = question
             /\ Terminate(0, FALSE, reports, ev.kind)

\* get_user_question() of src/l1.py: nothing is caught at the prompt
PromptScript(ev) ==
    IF ev.kind = "line"
        THEN /\ question' = QuestionOf(ev.text)
             /\ pc' = "stream_next"
             /\ UNCHANGED <<exitCode, uncaught, reports, cause>>
        ELSE /\ question' = question
             /\ ScriptTopLevel(IF ev.kind = "interrupt" THEN "KeyboardInterrupt"
                                                         ELSE "Exception",
                               TRUE, ev.kind)

\* question = get_user_question(); print(...); agent.stream({"messages":
\* question}, context={"db": db}, stream_mode="values")
Prompt ==
    /\ pc = "prompt"
    /\ prompted' = TRUE
    /\ \E ev \in StdinEvents :
        IF variant = "script" THEN PromptScript(ev) ELSE PromptRefactored(ev)
    /\ IF pc' = "stream_next"
        THEN /\ conv' = <<Human(question')>>
             /\ loopState' = "AwaitingModel"
             /\ runCtx' = Ctx(db)
        ELSE UNCHANGED <<conv, loopState, runCtx>>
    /\ UNCHANGED <<variant, env, db, catalog, schemaOut, defDb, toolLog,
                   pendingCalls, modelCalls, toolExecs, emitted, toolErrs,
                   consumed, rendered>>

\* ------------------------------------------------------------ the agent loop
\* AwaitingModel -> { ToolCallEmitted -> ToolExecuting -> AwaitingModel }*
\*               -> FinalAnswer
\* The loop runs inside the generator agent.stream(...) returns: it advances
\* only while the consumer's for statement is asking for the next snapshot
\* (pc = "stream_next") and hands over one snapshot per completed step.

\* the tool calls one model message may carry when n more may be emitted
CallBatches(n) == UNION {[1..k -> ProgQueries] : k \in 0..n}

\* the model answers the conversation so far: tool calls, or a final message
ModelStep ==
    /\ pc = "stream_next" /\ loopState = "AwaitingModel"
    /\ \E calls \in CallBatches(MaxToolCalls - emitted), shape \in Shapes :
        /\ conv' = Append(conv, Ai(calls, shape))
        /\ pendingCalls' = calls
        /\ emitted' = emitted + Len(calls)
        /\ loopState' = IF calls = <<>> THEN "FinalAnswer" ELSE "ToolCallEmitted"
    /\ modelCalls' = modelCalls + 1
    /\ consumed' = consumed + 1
    /\ pc' = "stream_body"
    /\ UNCHANGED <<variant, env, db, exitCode, uncaught, reports, prompted,
                   question, cause, toolExecs, toolErrs, rendered, catalog,
                   schemaOut, toolVars>>

\* the model call itself fails (provider error): the exception leaves the
\* generator inside the consumer's for statement
ModelCallFails ==
    /\ pc = "stream_next" /\ loopState = "AwaitingModel"
    /\ modelCalls' = modelCalls + 1
    /\ Raise("Exception", TRUE, "stream_error")
    /\ UNCHANGED <<variant, env, db, prompted, question, conv, pendingCalls,
                   loopState, toolExecs, emitted, toolErrs, consumed, rendered,
                   catalog, schemaOut, toolVars>>

\* the next pending tool call is routed to execute_sql with the run's context;
\* its result is appended as a tool message; with no call left pending control
\* returns to the model.  An exception leaving the tool leaves the generator.
ToolStep ==
    /\ pc = "stream_next" /\ loopState \in {"ToolCallEmitted", "ToolExecuting"}
    /\ pendingCalls # <<>>
    /\ \E out \in RunOutcomes(ToolDb(runCtx, defDb), Head(pendingCalls)),
          shape \in Shapes :
        LET r == ExecuteSql(runCtx, defDb, Head(pendingCalls), out) IN
        /\ toolErrs' = toolErrs + (IF out.kind = "exception" THEN 1 ELSE 0)
        /\ IF r.raised
            THEN /\ shape = "ok"
                 /\ Raise(IF out.kind = "interrupt" THEN "KeyboardInterrupt"
                                                    ELSE "Exception",
                          TRUE,
                          IF out.kind = "interrupt" THEN "interrupt"
                                                    ELSE "stream_error")
                 /\ UNCHANGED <<conv, pendingCalls, loopState, consumed>>
            ELSE /\ conv' = Append(conv, ToolMsg(r.value, shape))
                 /\ pendingCalls' = Tail(pendingCalls)
                 /\ loopState' = IF Tail(pendingCalls) = <<>>
                                    THEN "AwaitingModel" ELSE "ToolExecuting"
                 /\ consumed' = consumed + 1
                 /\ pc' = "stream_body"
                 /\ UNCHANGED <<exitCode, uncaught, reports, cause>>
    /\ toolExecs' = toolExecs + 1
    /\ UNCHANGED <<variant, env, db, prompted, question, modelCalls, emitted,
                   rendered, catalog, schemaOut, toolVars>>

\* the generator has nothing more to yield
StreamExhausted == loopState = "FinalAnswer"

\* ---------------------------------------------------- the consumer (main loop)
\* (a consumer that submits the conversation to the agent again when the
\* stream ends)
StreamEndRestart ==
    /\ pc = "stream_next" /\ StreamExhausted
    /\ loopState' = "AwaitingModel"
    /\ UNCHANGED <<variant, env, db, exitCode, uncaught, reports, prompted,
                   question, cause, pc, conv, pendingCalls, modelCalls,
                   toolExecs, emitted, toolErrs, consumed, rendered, catalog,
                   schemaOut, toolVars>>
\* the for statement finds the stream exhausted: the loop ends, main returns
\* and the process exits normally
StreamEnd ==
    /\ pc = "stream_next" /\ StreamExhausted
    /\ Terminate(0, FALSE, reports, "final")
    /\ UNCHANGED <<variant, env, db, prompted, question, loopVars, catalog,
                   schemaOut, toolVars>>

\* step["messages"][-1].pretty_print() succeeds
RenderStep ==
    /\ pc = "stream_body"
    /\ Last(conv).shape = "ok"
    /\ rendered' = rendered + 1
    /\ pc' = "stream_next"
    /\ UNCHANGED <<variant, env, db, exitCode, uncaught, reports, prompted,
                   question, cause, conv, pendingCalls, loopState, modelCalls,
                   toolExecs, emitted, toolErrs, consumed, catalog, schemaOut,
                   toolVars>>

\* (an except clause that reports the failure and goes on with the next
\* snapshot: no break)
RenderFailNoBreak ==
    /\ pc = "stream_body"
    /\ Last(conv).shape = "malformed"
    /\ reports' = HandleError("processing stream")
    /\ cause' = "render"
    /\ pc' = "stream_next"
    /\ UNCHANGED <<variant, env, db, exitCode, uncaught, prompted, question,
                   loopVars, catalog, schemaOut, toolVars>>
\* reading or rendering the snapshot raises: except Exception as e:
\* handle_error(e, "processing stream"); break -- and nothing follows the loop
RenderFail ==
    /\ pc = "stream_body"
    /\ Last(conv).shape = "malformed"
    /\ Terminate(0, FALSE, HandleError("processing stream"), "render")
    /\ UNCHANGED <<variant, env, db, prompted, question, loopVars, catalog,
                   schemaOut, toolVars>>

\* Ctrl-C while the main thread is anywhere but inside input()
Interrupt ==
    /\ pc \in {"construct", "create_agent", "stream_next", "stream_body"}
    /\ Raise("KeyboardInterrupt", pc \in {"stream_next", "stream_body"}, "interrupt")
    /\ UNCHANGED <<variant, env, db, prompted, question, loopVars, catalog,
                   schemaOut, toolVars>>

Next ==
    \/ CreateDatabase \/ CreateAgent \/ Prompt
    \/ ModelStep \/ ModelCallFails \/ ToolStep
    \/ StreamEnd \/ RenderStep \/ RenderFail
    \/ Interrupt

Init == ProgInit
Spec == Init /\ [][Next]_vars

\* the latest message of the conversation is a model message without tool calls
LatestIsFinalMessage ==
    conv # <<>> /\ Last(conv).role = "ai" /\ Last(conv).calls = <<>>

\* C3: the loop is in FinalAnswer exactly when the latest message is a model
\* message with no tool calls; the run ends normally only from FinalAnswer,
\* with no tool call pending; and from FinalAnswer on there is no model call,
\* no tool execution and no new message.
C3_FinalAnswerIffNoToolCalls ==
    /\ [](loopState = "FinalAnswer" <=> LatestIsFinalMessage)
    /\ [](cause = "final" =>
            /\ pc = "exited" /\ loopState = "FinalAnswer" /\ pendingCalls = <<>>)
    /\ [][loopState = "FinalAnswer" =>
            UNCHANGED <<modelCalls, toolExecs, conv, pendingCalls, loopState>>]_vars

\* a run with a tool round trip ended normally on the model's final message
C3_Witness ==
    /\ pc = "exited" /\ cause = "final"
    /\ modelCalls = 2 /\ toolExecs = 1
    /\ LatestIsFinalMessage

\* C4: when a snapshot cannot be read or rendered the failure is reported once,
\* as "processing stream", the process ends with status 0 and no traceback,
\* and from the failure on no snapshot is consumed or rendered and the loop
\* makes no further step.
C4_RenderFailureStopsLoop ==
    /\ [](cause = "render" =>
            /\ pc = "exited" /\ exitCode = 0 /\ ~uncaught
            /\ reports = <<"processing stream">>
            /\ Last(conv).shape = "malformed"
            /\ consumed = rendered + 1)
    /\ [][(cause' = "render" \/ cause = "render") =>
            UNCHANGED <<consumed, rendered, modelCalls, toolExecs, conv,
                        pendingCalls, loopState>>]_vars

\* the snapshot of a tool result could not be rendered, after earlier
\* snapshots had been
C4_Witness ==
    /\ cause = "render" /\ pc = "exited"
    /\ rendered >= 1
    /\ Last(conv).role = "tool"

HasErrorPrefix(text) == text # <<>> /\ Head(text) = "Error: "

\* C5: a tool execution whose db.run raised an execution error appends one
\* tool message "Error: ..." to the conversation and leaves the run going: no
\* exit, no model call in the same step, and the loop is back in AwaitingModel
\* once no call of the batch is pending.  Tool executions never outnumber the
\* tool calls the model emitted.
C5_ToolErrorReturnsToModel ==
    /\ [][toolErrs' # toolErrs =>
            /\ pc' = "stream_body" /\ cause' = "none" /\ exitCode' = -1
            /\ Len(conv') = Len(conv) + 1
            /\ Last(conv').role = "tool"
            /\ HasErrorPrefix(Last(conv').text)
            /\ loopState' = IF pendingCalls' = <<>> THEN "AwaitingModel"
                                                    ELSE "ToolExecuting"
            /\ modelCalls' = modelCalls]_vars
    /\ [](toolExecs <= emitted)
    /\ [](cause = "none" => toolExecs + Len(pendingCalls) = emitted)

\* a failed query, then a further tool call chosen by the model that
\* succeeded, then the final answer
C5_Witness ==
    /\ loopState = "FinalAnswer"
    /\ toolErrs = 1
    /\ \E i, j, k \in 1..Len(conv) :
        /\ i < j /\ j < k
        /\ conv[i].role = "tool" /\ HasErrorPrefix(conv[i].text)
        /\ conv[j].role = "ai" /\ conv[j].calls # <<>>
        /\ conv[k].role = "tool" /\ ~HasErrorPrefix(conv[k].text)

\* C9 as claimed: in both variants a user interrupt at the prompt or while
\* snapshots are streamed ends the process with exit status 0 and no uncaught
\* exception.
C9_InterruptExitsZero ==
    (cause = "interrupt" /\ prompted) =>
        (pc = "exited" /\ exitCode = 0 /\ ~uncaught)

\* C10 as claimed: a construction error is reported, nothing is prompted for,
\* no agent loop starts, and the exit status is not 0.
C10_ConstructionErrorExitsNonZero ==
    cause = "construction" =>
        /\ pc = "exited"
        /\ (reports # <<>> \/ uncaught)
        /\ ~prompted
        /\ loopState = "NotStarted" /\ modelCalls = 0
        /\ exitCode # 0

====
